---------------------------- MODULE Spec2Model ----------------------------
(***************************************************************************)
(* brainwasm: the parser with its peephole folding (bf.rs parse), the      *)
(* tree-walking interpreter (bf.rs interpret), the C code generator        *)
(* (bf.rs Ast::into_c) and the wrapping arithmetic of Byte and Address.    *)
(***************************************************************************)
EXTENDS Integers, Sequences, FiniteSets, TLC

(***************************************************************************)
(* Bounds of the model.                                                    *)
(***************************************************************************)
\* longest source text the parser is given
MaxLen == 5
\* longest source text whose tree is then run
MaxRunLen == 5
\* most evaluation steps of one run
MaxSteps == 64
\* most bytes the input stream holds before it ends
MaxIn == 1
\* largest magnitude of the small signed deltas tried on the arithmetic
MaxDelta == 300

(***************************************************************************)
(* Characters.  "x" stands for every character that is none of the eight   *)
(* symbols.                                                                *)
(***************************************************************************)
Symbols == {",", ".", "+", "-", ">", "<", "[", "]"}
Chars == Symbols \cup {"x"}
\* bytes the input stream may deliver
InBytes == {1, 255}

VARIABLES
    source,   \* the characters parse has consumed; at the end, the source
    index,    \* enumerate()'s index of the next character
    root,     \* Builder.root.body
    loops,    \* Builder.loops, innermost last
    result,   \* what parse returned
    mode,     \* which part of the program is running
    mem,      \* the tape, as the cells that are not 0
    p,        \* the cursor
    stack,    \* the bodies eval is inside of, innermost last
    stdin,    \* the bytes the input stream has delivered so far
    rpos,     \* how many of them this run has consumed
    eof,      \* the input stream has ended after those bytes
    io,       \* what the latest read or write call returned
    out,      \* the bytes written
    status,   \* how the run stands
    steps,    \* evaluation steps of this run
    ctext,    \* the lines into_c returned
    cpc,      \* the line of ctext the C program is at
    res,      \* the finished runs' results
    arith     \* the latest addition tried on its own

parsevars == <<source, index, root, loops, result>>
runvars == <<mem, p, stack, stdin, rpos, eof, io, out, status, steps, ctext, cpc, res>>
vars == <<source, index, root, loops, result, mode, mem, p, stack, stdin,
          rpos, eof, io, out, status, steps, ctext, cpc, res, arith>>

(***************************************************************************)
(* Op, and Option<Op> as a sequence of at most one Op.                     *)
(***************************************************************************)
Add(n) == [k |-> "Add", n |-> n, body |-> <<>>]
Go(n) == [k |-> "Go", n |-> n, body |-> <<>>]
Set(n) == [k |-> "Set", n |-> n, body |-> <<>>]
Loop(body) == [k |-> "Loop", n |-> 0, body |-> body]
Read == [k |-> "Read", n |-> 0, body |-> <<>>]
Write == [k |-> "Write", n |-> 0, body |-> <<>>]
None == <<>>
Some(op) == <<op>>

(***************************************************************************)
(* Arithmetic.  Rust's % truncates towards zero.                           *)
(***************************************************************************)
RustRem(a, m) == IF a >= 0 THEN a % m ELSE -((-a) % m)

add_signed_no_normalize(lhs, rhs, max) == RustRem(lhs + rhs, max)

add_signed(lhs, rhs, max) ==
    LET r1 == RustRem(lhs + rhs, max)
        r2 == r1 + max
    IN  RustRem(r2, max)

\* impl AddAssign<isize> for Byte
Byte_add_assign(self, rhs) == add_signed(self, rhs, 256)

\* impl AddAssign<isize> for Address
Address_add_assign(self, rhs) == add_signed(self, rhs, 64 * 1024)

(***************************************************************************)
(* Op::merge, its arms in the order of the match.                          *)
(***************************************************************************)
merge_no_zero_rule(self, rhs) ==
    IF self.k = "Add" /\ rhs.k = "Add" THEN Some(Add(self.n + rhs.n))
    ELSE IF self.k = "Go" /\ rhs.k = "Go" THEN Some(Go(self.n + rhs.n))
    ELSE IF self.k = "Set" /\ rhs.k = "Add" THEN Some(Set(Byte_add_assign(self.n, rhs.n)))
    ELSE IF self.k = "Add" /\ rhs.k = "Set" THEN Some(rhs)
    ELSE IF self.k = "Set" /\ rhs.k = "Set" THEN Some(rhs)
    ELSE IF self.k = "Add" /\ rhs.k = "Read" THEN Some(Read)
    ELSE IF self.k = "Set" /\ rhs.k = "Read" THEN Some(Read)
    ELSE IF self.k = "Loop" /\ rhs.k = "Loop" THEN Some(self)
    ELSE IF self.k = "Loop" /\ self.body = <<>> THEN Some(rhs)
    ELSE None

merge(self, rhs) ==
    IF self.k = "Add" /\ rhs.k = "Add" THEN Some(Add(self.n + rhs.n))
    ELSE IF self.k = "Go" /\ rhs.k = "Go" THEN Some(Go(self.n + rhs.n))
    ELSE IF self.k = "Set" /\ rhs.k = "Add" THEN Some(Set(Byte_add_assign(self.n, rhs.n)))
    ELSE IF self.k = "Add" /\ rhs.k = "Set" THEN Some(rhs)
    ELSE IF self.k = "Set" /\ rhs.k = "Set" THEN Some(rhs)
    ELSE IF self.k = "Go" /\ self.n = 0 THEN Some(rhs)
    ELSE IF self.k = "Add" /\ self.n = 0 THEN Some(rhs)
    ELSE IF self.k = "Add" /\ rhs.k = "Read" THEN Some(Read)
    ELSE IF self.k = "Set" /\ rhs.k = "Read" THEN Some(Read)
    ELSE IF self.k = "Loop" /\ rhs.k = "Loop" THEN Some(self)
    ELSE IF self.k = "Loop" /\ self.body = <<>> THEN Some(rhs)
    ELSE None

(***************************************************************************)
(* Ast::emit: merge op into the tail for as long as it merges, then push.  *)
(***************************************************************************)
emit_one_shot(body, op) ==
    IF body = <<>> THEN <<op>>
    ELSE LET a == body[Len(body)]
             b == merge(a, op)
         IN  IF b # None
             THEN Append(SubSeq(body, 1, Len(body) - 1), b[1])
             ELSE Append(body, op)

RECURSIVE emit(_, _)
emit(body, op) ==
    IF body = <<>> THEN <<op>>
    ELSE LET a == body[Len(body)]
             b == merge(a, op)
         IN  IF b # None
             THEN emit(SubSeq(body, 1, Len(body) - 1), b[1])
             ELSE Append(body, op)

(***************************************************************************)
(* Ast::into_loop                                                          *)
(***************************************************************************)
into_loop_decrement_only(body) ==
    IF body = <<Add(-1)>> THEN Set(0)
    ELSE Loop(body)

into_loop(body) ==
    IF body = <<Add(-1)>> THEN Set(0)
    ELSE IF body = <<Add(1)>> THEN Set(0)
    ELSE Loop(body)

(***************************************************************************)
(* The Builder.  Builder::emit gives the new <<root, loops>>.              *)
(***************************************************************************)
Builder_emit(r, ls, op) ==
    IF ls # <<>>
    THEN <<r, [ls EXCEPT ![Len(ls)] = emit(ls[Len(ls)], op)]>>
    ELSE <<emit(r, op), ls>>

\* the match of parse's loop, for the six characters that emit
OpOf(ch) ==
    IF ch = "," THEN Read
    ELSE IF ch = "." THEN Write
    ELSE IF ch = "+" THEN Add(1)
    ELSE IF ch = "-" THEN Add(-1)
    ELSE IF ch = ">" THEN Go(1)
    ELSE Go(-1)

Emitting == {",", ".", "+", "-", ">", "<"}

NoResult == [tag |-> "none", n |-> 0, ast |-> <<>>]
Ok(ast) == [tag |-> "Ok", n |-> 0, ast |-> ast]
UnbalancedLeftBrackets(depth) == [tag |-> "UnbalancedLeftBrackets", n |-> depth, ast |-> <<>>]
UnbalancedRightBracket(i) == [tag |-> "UnbalancedRightBracket", n |-> i, ast |-> <<>>]


(***************************************************************************)
(* The tape: a Vec<Byte> of MEMSIZE zeros, kept as its cells that are not  *)
(* 0.  Cell reads it, Store writes it.                                     *)
(***************************************************************************)
MEMSIZE == 32 * 1024
EmptyTape == [a \in {} |-> 0]
Cell(m, a) == IF a \in DOMAIN m THEN m[a] ELSE 0
Store_next_cell(m, a, v) ==
    IF v = 0
    THEN [x \in (DOMAIN m) \ {a + 1} |-> m[x]]
    ELSE [x \in (DOMAIN m) \cup {a + 1} |-> IF x = a + 1 THEN v ELSE m[x]]

Store(m, a, v) ==
    IF v = 0
    THEN [x \in (DOMAIN m) \ {a} |-> m[x]]
    ELSE [x \in (DOMAIN m) \cup {a} |-> IF x = a THEN v ELSE m[x]]

NoRes == [status |-> "none", out |-> <<>>, mem |-> EmptyTape, p |-> 0]
NoArith == [kind |-> "none", lhs |-> 0, rhs |-> 0, r |-> 0]

InitProgram ==
    /\ source = <<>>
    /\ index = 0
    /\ root = <<>>
    /\ loops = <<>>
    /\ result = NoResult
    /\ mode = "parse"
    /\ mem = EmptyTape
    /\ p = 0
    /\ stack = <<>>
    /\ stdin = <<>>
    /\ rpos = 0
    /\ eof = FALSE
    /\ io = "none"
    /\ out = <<>>
    /\ status = "none"
    /\ steps = 0
    /\ ctext = <<>>
    /\ cpc = 0
    /\ res = [m \in {"interp", "unfolded", "c"} |-> NoRes]

Init == InitProgram /\ arith = NoArith

(***************************************************************************)
(* parse: one action per arm of the match over source.chars().enumerate(), *)
(* and one per outcome after the loop.                                     *)
(***************************************************************************)
Reading == mode = "parse" /\ Len(source) < MaxLen

\* the characters parse never reads, when it returns at a ']'
Rests(n) == UNION {[1..m -> Chars] : m \in 0..n}

\* ',' '.' '+' '-' '>' '<' => builder.emit(op)?
EmitSymbol ==
    /\ Reading
    /\ \E ch \in Emitting :
         LET b == Builder_emit(root, loops, OpOf(ch))
         IN  /\ root' = b[1]
             /\ loops' = b[2]
             /\ source' = Append(source, ch)
    /\ index' = index + 1
    /\ UNCHANGED <<result, mode, arith>>
    /\ UNCHANGED runvars

\* '[' => builder.begin()
begin ==
    /\ Reading
    /\ loops' = Append(loops, <<>>)
    /\ source' = Append(source, "[")
    /\ index' = index + 1
    /\ UNCHANGED <<root, result, mode, arith>>
    /\ UNCHANGED runvars

end_nested ==
    /\ Reading
    /\ loops # <<>>
    /\ LET body == loops[Len(loops)]
           b == Builder_emit(root, SubSeq(loops, 1, Len(loops) - 1), Loop(<<into_loop(body)>>))
       IN  /\ root' = b[1]
           /\ loops' = b[2]
    /\ source' = Append(source, "]")
    /\ index' = index + 1
    /\ UNCHANGED <<result, mode, arith>>
    /\ UNCHANGED runvars

\* ']' => builder.end(index)?, with a loop open
end ==
    /\ Reading
    /\ loops # <<>>
    /\ LET body == loops[Len(loops)]
           b == Builder_emit(root, SubSeq(loops, 1, Len(loops) - 1), into_loop(body))
       IN  /\ root' = b[1]
           /\ loops' = b[2]
    /\ source' = Append(source, "]")
    /\ index' = index + 1
    /\ UNCHANGED <<result, mode, arith>>
    /\ UNCHANGED runvars

\* ']' => builder.end(index)?, with no loop open: parse returns the error
\* and reads no further
end_unbalanced ==
    /\ Reading
    /\ loops = <<>>
    /\ result' = UnbalancedRightBracket(index)
    /\ mode' = "failed"
    /\ \E rest \in Rests(MaxLen - Len(source) - 1) :
         source' = Append(source, "]") \o rest
    /\ UNCHANGED <<index, root, loops, arith>>
    /\ UNCHANGED runvars

skip_uncounted ==
    /\ Reading
    /\ source' = Append(source, "x")
    /\ UNCHANGED <<index, root, loops, result, mode, arith>>
    /\ UNCHANGED runvars

skip_as_write ==
    /\ Reading
    /\ LET b == Builder_emit(root, loops, Write)
       IN  /\ root' = b[1]
           /\ loops' = b[2]
    /\ source' = Append(source, "x")
    /\ index' = index + 1
    /\ UNCHANGED <<result, mode, arith>>
    /\ UNCHANGED runvars

\* _ => continue
skip ==
    /\ Reading
    /\ source' = Append(source, "x")
    /\ index' = index + 1
    /\ UNCHANGED <<root, loops, result, mode, arith>>
    /\ UNCHANGED runvars

\* the source ends with builder.loops empty
parse_ok ==
    /\ mode = "parse"
    /\ loops = <<>>
    /\ result' = Ok(root)
    /\ mode' = "parsed"
    /\ UNCHANGED <<source, index, root, loops, arith>>
    /\ UNCHANGED runvars

parse_unbalanced_left_last_index ==
    /\ mode = "parse"
    /\ loops # <<>>
    /\ result' = UnbalancedLeftBrackets(Len(loops) - 1)
    /\ mode' = "failed"
    /\ UNCHANGED <<source, index, root, loops, arith>>
    /\ UNCHANGED runvars

\* the source ends with loops open
parse_unbalanced_left ==
    /\ mode = "parse"
    /\ loops # <<>>
    /\ result' = UnbalancedLeftBrackets(Len(loops))
    /\ mode' = "failed"
    /\ UNCHANGED <<source, index, root, loops, arith>>
    /\ UNCHANGED runvars

parse ==
    \/ EmitSymbol
    \/ begin
    \/ end
    \/ end_unbalanced
    \/ skip
    \/ parse_ok
    \/ parse_unbalanced_left

\* parse as a function of the whole source: what the actions above build
\* one character at a time
RECURSIVE parse_from(_, _, _, _)
parse_from(src, i, r, ls) ==
    IF i > Len(src)
    THEN IF ls = <<>> THEN Ok(r) ELSE UnbalancedLeftBrackets(Len(ls))
    ELSE IF src[i] \in Emitting
    THEN LET b == Builder_emit(r, ls, OpOf(src[i]))
         IN  parse_from(src, i + 1, b[1], b[2])
    ELSE IF src[i] = "["
    THEN parse_from(src, i + 1, r, Append(ls, <<>>))
    ELSE IF src[i] = "]"
    THEN IF ls = <<>>
         THEN UnbalancedRightBracket(i - 1)
         ELSE LET b == Builder_emit(r, SubSeq(ls, 1, Len(ls) - 1), into_loop(ls[Len(ls)]))
              IN  parse_from(src, i + 1, b[1], b[2])
    ELSE parse_from(src, i + 1, r, ls)
parse_source(src) == parse_from(src, 1, <<>>, <<>>)

SpecParse == Init /\ [][parse]_vars


(***************************************************************************)
(* The tree of the same source with nothing folded: one instruction per    *)
(* symbol, every ']' a Loop.  What folding is measured against.            *)
(***************************************************************************)
RECURSIVE unfolded(_, _, _, _)
unfolded(src, i, r, ls) ==
    IF i > Len(src) THEN r
    ELSE IF src[i] \in Emitting
    THEN IF ls # <<>>
         THEN unfolded(src, i + 1, r, [ls EXCEPT ![Len(ls)] = Append(@, OpOf(src[i]))])
         ELSE unfolded(src, i + 1, Append(r, OpOf(src[i])), ls)
    ELSE IF src[i] = "["
    THEN unfolded(src, i + 1, r, Append(ls, <<>>))
    ELSE IF src[i] = "]"
    THEN IF Len(ls) > 1
         THEN unfolded(src, i + 1, r,
                  [SubSeq(ls, 1, Len(ls) - 1) EXCEPT
                      ![Len(ls) - 1] = Append(@, Loop(ls[Len(ls)]))])
         ELSE unfolded(src, i + 1, Append(r, Loop(ls[Len(ls)])), <<>>)
    ELSE unfolded(src, i + 1, r, ls)

(***************************************************************************)
(* interpret.  stack holds, innermost last, the body each active `for op   *)
(* in &ast.body` walks and the place i it is at; the frame under a loop    *)
(* body stays at its Loop, whose while tests again when the body ends.     *)
(***************************************************************************)
Frame(body) == [body |-> body, i |-> 1]
Top == stack[Len(stack)]
AtOp == stack # <<>> /\ Top.i <= Len(Top.body)
Op == Top.body[Top.i]
Advance_stuck(st) == st
Advance(st) == [st EXCEPT ![Len(st)].i = @ + 1]
Evaluating(k) ==
    /\ mode \in {"interp", "unfolded"}
    /\ status = "running"
    /\ steps < MaxSteps
    /\ AtOp
    /\ Op.k = k
Outcome(st) == [status |-> st, out |-> out, mem |-> mem, p |-> p]

\* what the ? after a failed read or write does: eval returns the error
\* through every enclosing eval, and interpret returns it
io_error_kept_in_loop(st) ==
    IF Len(st) > 1
    THEN [status |-> "running", stack |-> Advance(st)]
    ELSE [status |-> "Io", stack |-> <<>>]

io_error(st) == [status |-> "Io", stack |-> <<>>]

\* let mem = vec![Byte(0); MEMSIZE]; let p = Address(0); ...
interpret_start ==
    /\ mode = "parsed"
    /\ Len(source) <= MaxRunLen
    /\ mode' = "interp"
    /\ mem' = EmptyTape
    /\ p' = 0
    /\ stack' = <<Frame(result.ast)>>
    /\ status' = "running"
    /\ UNCHANGED <<parsevars, stdin, rpos, eof, io, out, steps, ctext, cpc, res, arith>>

\* the same interpreter on the unfolded tree of the same source, the input
\* stream read from its start again
unfolded_start ==
    /\ mode = "interp"
    /\ status = "Ok"
    /\ mode' = "unfolded"
    /\ mem' = EmptyTape
    /\ p' = 0
    /\ stack' = <<Frame(unfolded(source, 1, <<>>, <<>>))>>
    /\ status' = "running"
    /\ rpos' = 0
    /\ out' = <<>>
    /\ steps' = 0
    /\ io' = "none"
    /\ UNCHANGED <<parsevars, stdin, eof, ctext, cpc, res, arith>>

\* Op::Add(n) => self.mem[self.p.0] += *n
eval_Add ==
    /\ Evaluating("Add")
    /\ p < MEMSIZE
    /\ mem' = Store(mem, p, Byte_add_assign(Cell(mem, p), Op.n))
    /\ stack' = Advance(stack)
    /\ steps' = steps + 1
    /\ UNCHANGED <<parsevars, mode, p, stdin, rpos, eof, io, out, status, ctext, cpc, res, arith>>

\* Op::Go(n) => self.p += *n
eval_Go ==
    /\ Evaluating("Go")
    /\ p' = Address_add_assign(p, Op.n)
    /\ stack' = Advance(stack)
    /\ steps' = steps + 1
    /\ UNCHANGED <<parsevars, mode, mem, stdin, rpos, eof, io, out, status, ctext, cpc, res, arith>>

\* Op::Set(n) => self.mem[self.p.0] = *n
eval_Set ==
    /\ Evaluating("Set")
    /\ p < MEMSIZE
    /\ mem' = Store(mem, p, Op.n)
    /\ stack' = Advance(stack)
    /\ steps' = steps + 1
    /\ UNCHANGED <<parsevars, mode, p, stdin, rpos, eof, io, out, status, ctext, cpc, res, arith>>

eval_Loop_body_first ==
    /\ Evaluating("Loop")
    /\ p < MEMSIZE
    /\ stack' = Append(stack, Frame(Op.body))
    /\ steps' = steps + 1
    /\ UNCHANGED <<parsevars, mode, mem, p, stdin, rpos, eof, io, out, status, ctext, cpc, res, arith>>

\* Op::Loop(ast) => while self.mem[self.p.0].0 != 0 { for op in &ast.body .. }
\* the test of the while: into the body, or past the Loop
eval_Loop ==
    /\ Evaluating("Loop")
    /\ p < MEMSIZE
    /\ stack' = IF Cell(mem, p) # 0
                THEN Append(stack, Frame(Op.body))
                ELSE Advance(stack)
    /\ steps' = steps + 1
    /\ UNCHANGED <<parsevars, mode, mem, p, stdin, rpos, eof, io, out, status, ctext, cpc, res, arith>>

\* the for over a loop body is through: back to the while of its Loop
loop_pass_end ==
    /\ mode \in {"interp", "unfolded"}
    /\ status = "running"
    /\ steps < MaxSteps
    /\ Len(stack) > 1
    /\ ~AtOp
    /\ stack' = SubSeq(stack, 1, Len(stack) - 1)
    /\ steps' = steps + 1
    /\ UNCHANGED <<parsevars, mode, mem, p, stdin, rpos, eof, io, out, status, ctext, cpc, res, arith>>

\* what the input stream gives the next read of a run that has consumed
\* rpos bytes: <<kind, byte, stdin', eof'>>.  The stream is the same for
\* every run; its bytes and its end are settled when first read.
ReadOutcomes ==
    IF rpos < Len(stdin)
    THEN {<<"read_byte", stdin[rpos + 1], stdin, eof>>}
    ELSE {<<"read_eof", 0, stdin, TRUE>>}
         \cup (IF ~eof /\ Len(stdin) < MaxIn
               THEN {<<"read_byte", b, Append(stdin, b), FALSE>> : b \in InBytes}
               ELSE {})

\* Op::Read: stdin.read(&mut buf)? gave Ok(n); buf starts as [0] and n is
\* not looked at; then mem[p.0] = Byte(buf[0])
eval_Read ==
    /\ Evaluating("Read")
    /\ \E o \in ReadOutcomes :
         /\ io' = o[1]
         /\ stdin' = o[3]
         /\ eof' = o[4]
         /\ rpos' = IF o[1] = "read_byte" THEN rpos + 1 ELSE rpos
         /\ IF p < MEMSIZE
            THEN /\ mem' = Store(mem, p, o[2])
                 /\ stack' = Advance(stack)
                 /\ status' = status
            ELSE /\ status' = "Panic"
                 /\ UNCHANGED <<mem, stack>>
    /\ steps' = steps + 1
    /\ UNCHANGED <<parsevars, mode, p, out, ctext, cpc, res, arith>>

\* Op::Read: stdin.read(&mut buf)? gave Err
eval_Read_err ==
    /\ Evaluating("Read")
    /\ io' = "read_err"
    /\ status' = io_error(stack).status
    /\ stack' = io_error(stack).stack
    /\ res' = IF status' = "Io" THEN [res EXCEPT ![mode] = Outcome("Io")] ELSE res
    /\ steps' = steps + 1
    /\ UNCHANGED <<parsevars, mode, mem, p, stdin, rpos, eof, out, ctext, cpc, arith>>

\* Op::Write: let Byte(c) = self.mem[self.p.0]; self.stdout.write(&[c])? gave Ok
eval_Write ==
    /\ Evaluating("Write")
    /\ p < MEMSIZE
    /\ io' = "write_ok"
    /\ out' = Append(out, Cell(mem, p))
    /\ stack' = Advance(stack)
    /\ steps' = steps + 1
    /\ UNCHANGED <<parsevars, mode, mem, p, stdin, rpos, eof, status, ctext, cpc, res, arith>>

\* Op::Write: self.stdout.write(&[c])? gave Err
eval_Write_err ==
    /\ Evaluating("Write")
    /\ p < MEMSIZE
    /\ io' = "write_err"
    /\ status' = io_error(stack).status
    /\ stack' = io_error(stack).stack
    /\ res' = IF status' = "Io" THEN [res EXCEPT ![mode] = Outcome("Io")] ELSE res
    /\ steps' = steps + 1
    /\ UNCHANGED <<parsevars, mode, mem, p, stdin, rpos, eof, out, ctext, cpc, arith>>

\* self.mem[self.p.0] with the cursor past the Vec's MEMSIZE cells: the
\* index panics (Read reads first and is in eval_Read)
eval_panic ==
    /\ \E k \in {"Add", "Set", "Loop", "Write"} : Evaluating(k)
    /\ p >= MEMSIZE
    /\ status' = "Panic"
    /\ steps' = steps + 1
    /\ UNCHANGED <<parsevars, mode, mem, p, stack, stdin, rpos, eof, io, out, ctext, cpc, res, arith>>

\* the for over ast.body is through: Ok(())
interpret_return ==
    /\ mode \in {"interp", "unfolded"}
    /\ status = "running"
    /\ Len(stack) = 1
    /\ ~AtOp
    /\ status' = "Ok"
    /\ res' = [res EXCEPT ![mode] = Outcome("Ok")]
    /\ UNCHANGED <<parsevars, mode, mem, p, stack, stdin, rpos, eof, io, out, steps, ctext, cpc, arith>>

interpret ==
    \/ interpret_start
    \/ unfolded_start
    \/ eval_Add
    \/ eval_Go
    \/ eval_Set
    \/ eval_Loop
    \/ loop_pass_end
    \/ eval_Read
    \/ eval_Read_err
    \/ eval_Write
    \/ eval_Write_err
    \/ eval_panic
    \/ interpret_return


(***************************************************************************)
(* Ast::into_c.  A line of the text is its indentation (the tabs of        *)
(* indent_line), the statement written and the number formatted into it.   *)
(***************************************************************************)
Line(tabs, stmt, n) == [tabs |-> tabs, stmt |-> stmt, n |-> n]

RECURSIVE print_flat(_, _)
print_flat(body, tabs) ==
    IF body = <<>> THEN <<>>
    ELSE LET op == Head(body)
             first ==
                 IF op.k = "Add"
                 THEN IF op.n > 0
                      THEN <<Line(tabs, "mem[p] += n;", op.n)>>
                      ELSE <<Line(tabs, "mem[p] -= n;", -op.n)>>
                 ELSE IF op.k = "Go"
                 THEN IF op.n > 0
                      THEN <<Line(tabs, "p += n;", op.n)>>
                      ELSE <<Line(tabs, "p -= n;", -op.n)>>
                 ELSE IF op.k = "Set"
                 THEN <<Line(tabs, "mem[p] = n;", op.n)>>
                 ELSE IF op.k = "Loop"
                 THEN <<Line(tabs, "while (mem[p]) {", 0)>>
                      \o print_flat(op.body, tabs)
                      \o <<Line(tabs, "}", 0)>>
                 ELSE IF op.k = "Read"
                 THEN <<Line(tabs, "mem[p] = getchar();", 0)>>
                 ELSE <<Line(tabs, "putchar(mem[p]);", 0)>>
         IN  first \o print_flat(Tail(body), tabs)

\* C::print
RECURSIVE print(_, _)
print(body, tabs) ==
    IF body = <<>> THEN <<>>
    ELSE LET op == Head(body)
             first ==
                 IF op.k = "Add"
                 THEN IF op.n > 0
                      THEN <<Line(tabs, "mem[p] += n;", op.n)>>
                      ELSE <<Line(tabs, "mem[p] -= n;", -op.n)>>
                 ELSE IF op.k = "Go"
                 THEN IF op.n > 0
                      THEN <<Line(tabs, "p += n;", op.n)>>
                      ELSE <<Line(tabs, "p -= n;", -op.n)>>
                 ELSE IF op.k = "Set"
                 THEN <<Line(tabs, "mem[p] = n;", op.n)>>
                 ELSE IF op.k = "Loop"
                 THEN <<Line(tabs, "while (mem[p]) {", 0)>>
                      \o print(op.body, tabs + 1)
                      \o <<Line(tabs, "}", 0)>>
                 ELSE IF op.k = "Read"
                 THEN <<Line(tabs, "mem[p] = getchar();", 0)>>
                 ELSE <<Line(tabs, "putchar(mem[p]);", 0)>>
         IN  first \o print(Tail(body), tabs)

CMEMSIZE == 65536

into_c(body) ==
    <<Line(0, "#include <stdio.h>", 0),
      Line(0, "", 0),
      Line(0, "char mem[n] = {0};", CMEMSIZE),
      Line(0, "int p = n;", 0),
      Line(0, "", 0),
      Line(0, "int main(int argc, char **argv) {", 0)>>
    \o print(body, 1)
    \o <<Line(0, "}", 0)>>

(***************************************************************************)
(* The generated program, run as C runs it: char mem[65536], int p, cells  *)
(* kept as their bytes 0..255, getchar() giving EOF = -1 at the end of     *)
(* the input, and mem[p] outside the array undefined.                      *)
(***************************************************************************)
CRunning(stmt) ==
    /\ mode = "c"
    /\ status = "running"
    /\ steps < MaxSteps
    /\ ctext[cpc].stmt = stmt
CInBounds == 0 <= p /\ p < ctext[3].n
\* the line that opens main in a text
MainLine(text) == CHOOSE j \in 1..Len(text) : text[j].stmt = "int main(int argc, char **argv) {"
\* the closing brace of the while at line i, the while of the brace at line j
CloseOf(i) ==
    CHOOSE j \in (i + 1)..Len(ctext) :
        /\ ctext[j].stmt = "}" /\ ctext[j].tabs = ctext[i].tabs
        /\ \A x \in (i + 1)..(j - 1) : ~(ctext[x].stmt = "}" /\ ctext[x].tabs = ctext[i].tabs)
WhileOf(j) ==
    CHOOSE i \in 1..(j - 1) :
        /\ ctext[i].stmt = "while (mem[p]) {" /\ ctext[i].tabs = ctext[j].tabs
        /\ \A x \in (i + 1)..(j - 1) :
               ~(ctext[x].stmt = "while (mem[p]) {" /\ ctext[x].tabs = ctext[j].tabs)
\* a value stored into a char: its low eight bits
CChar(v) == ((v % 256) + 256) % 256

\* main.rs: ast.into_c(), and the text compiled and started on the same
\* input stream
c_start ==
    /\ mode = "interp"
    /\ status = "Ok"
    /\ mode' = "c"
    /\ ctext' = into_c(result.ast)
    /\ cpc' = MainLine(into_c(result.ast)) + 1
    /\ mem' = EmptyTape
    /\ p' = 0
    /\ stack' = <<>>
    /\ status' = "running"
    /\ rpos' = 0
    /\ out' = <<>>
    /\ steps' = 0
    /\ io' = "none"
    /\ UNCHANGED <<parsevars, stdin, eof, res, arith>>

\* mem[p] += n; mem[p] -= n; mem[p] = n;
c_assign ==
    /\ \/ CRunning("mem[p] += n;") /\ mem' = Store(mem, p, CChar(Cell(mem, p) + ctext[cpc].n))
       \/ CRunning("mem[p] -= n;") /\ mem' = Store(mem, p, CChar(Cell(mem, p) - ctext[cpc].n))
       \/ CRunning("mem[p] = n;") /\ mem' = Store(mem, p, CChar(ctext[cpc].n))
    /\ CInBounds
    /\ cpc' = cpc + 1
    /\ steps' = steps + 1
    /\ UNCHANGED <<parsevars, mode, p, stack, stdin, rpos, eof, io, out, status, ctext, res, arith>>

\* p += n; p -= n;  on an int
c_move ==
    /\ \/ CRunning("p += n;") /\ p' = p + ctext[cpc].n
       \/ CRunning("p -= n;") /\ p' = p - ctext[cpc].n
    /\ cpc' = cpc + 1
    /\ steps' = steps + 1
    /\ UNCHANGED <<parsevars, mode, mem, stack, stdin, rpos, eof, io, out, status, ctext, res, arith>>

\* while (mem[p]) {
c_while ==
    /\ CRunning("while (mem[p]) {")
    /\ CInBounds
    /\ cpc' = IF Cell(mem, p) # 0 THEN cpc + 1 ELSE CloseOf(cpc) + 1
    /\ steps' = steps + 1
    /\ UNCHANGED <<parsevars, mode, mem, p, stack, stdin, rpos, eof, io, out, status, ctext, res, arith>>

\* the } of a while: back to its test
c_close ==
    /\ CRunning("}")
    /\ ctext[cpc].tabs > 0
    /\ cpc' = WhileOf(cpc)
    /\ steps' = steps + 1
    /\ UNCHANGED <<parsevars, mode, mem, p, stack, stdin, rpos, eof, io, out, status, ctext, res, arith>>

\* mem[p] = getchar();  EOF is -1
c_getchar ==
    /\ CRunning("mem[p] = getchar();")
    /\ CInBounds
    /\ \E o \in ReadOutcomes :
         /\ io' = o[1]
         /\ stdin' = o[3]
         /\ eof' = o[4]
         /\ rpos' = IF o[1] = "read_byte" THEN rpos + 1 ELSE rpos
         /\ mem' = Store(mem, p, CChar(IF o[1] = "read_byte" THEN o[2] ELSE -1))
    /\ cpc' = cpc + 1
    /\ steps' = steps + 1
    /\ UNCHANGED <<parsevars, mode, p, stack, out, status, ctext, res, arith>>

\* putchar(mem[p]);
c_putchar ==
    /\ CRunning("putchar(mem[p]);")
    /\ CInBounds
    /\ io' = "write_ok"
    /\ out' = Append(out, Cell(mem, p))
    /\ cpc' = cpc + 1
    /\ steps' = steps + 1
    /\ UNCHANGED <<parsevars, mode, mem, p, stack, stdin, rpos, eof, status, ctext, res, arith>>

\* mem[p] with p outside the array: undefined, and the run is followed no
\* further
c_undefined ==
    /\ \E stmt \in {"mem[p] += n;", "mem[p] -= n;", "mem[p] = n;", "while (mem[p]) {",
                    "mem[p] = getchar();", "putchar(mem[p]);"} : CRunning(stmt)
    /\ ~CInBounds
    /\ status' = "Undefined"
    /\ steps' = steps + 1
    /\ UNCHANGED <<parsevars, mode, mem, p, stack, stdin, rpos, eof, io, out, ctext, cpc, res, arith>>

\* the } of main
c_return ==
    /\ CRunning("}")
    /\ ctext[cpc].tabs = 0
    /\ status' = "Ok"
    /\ res' = [res EXCEPT !["c"] = Outcome("Ok")]
    /\ UNCHANGED <<parsevars, mode, mem, p, stack, stdin, rpos, eof, io, out, steps, ctext, cpc, arith>>

compiled ==
    \/ c_start
    \/ c_assign
    \/ c_move
    \/ c_while
    \/ c_close
    \/ c_getchar
    \/ c_putchar
    \/ c_undefined
    \/ c_return

Next == parse \/ interpret \/ compiled

Spec == Init /\ [][Next]_vars

\* main.rs without -c: parse, then interpret on the tree parse returned
interpret_parsed ==
    \/ interpret_start
    \/ eval_Add
    \/ eval_Go
    \/ eval_Set
    \/ eval_Loop
    \/ loop_pass_end
    \/ eval_Read
    \/ eval_Read_err
    \/ eval_Write
    \/ eval_Write_err
    \/ eval_panic
    \/ interpret_return

SpecInterp == Init /\ [][parse \/ interpret_parsed]_vars


(***************************************************************************)
(* The two additions on their own, on operands the programs of the bounds  *)
(* above do not reach: every cell, the addresses at both ends of the tape  *)
(* and of the Vec, deltas of either sign and beyond one turn.              *)
(***************************************************************************)
\* main.rs with -c or -o: parse, then ast.into_c() on the tree returned
main_into_c ==
    /\ mode = "parsed"
    /\ mode' = "compiled"
    /\ ctext' = into_c(result.ast)
    /\ UNCHANGED <<parsevars, mem, p, stack, stdin, rpos, eof, io, out, status, steps, cpc, res, arith>>

SpecCompile == Init /\ [][parse \/ main_into_c]_vars

Cells == 0..255
Addresses == (0..2) \cup {MEMSIZE - 1, MEMSIZE} \cup ((64 * 1024 - 3)..(64 * 1024 - 1))
Deltas == (-MaxDelta)..MaxDelta
AddressDeltas ==
    Deltas \cup {s * (64 * 1024) + d : s \in {-2, -1, 1, 2}, d \in -2..2}

\* the operands, drawn before either addition is applied
ArithInit ==
    /\ InitProgram
    /\ \E a \in Cells \cup Addresses, b \in AddressDeltas :
         arith = [kind |-> "none", lhs |-> a, rhs |-> b, r |-> 0]

\* impl AddAssign<isize> for Byte
add_Byte ==
    /\ arith.kind = "none"
    /\ arith.lhs \in Cells
    /\ arith.rhs \in Deltas
    /\ arith' = [arith EXCEPT !.kind = "Byte", !.r = Byte_add_assign(arith.lhs, arith.rhs)]
    /\ UNCHANGED <<parsevars, mode, runvars>>

\* impl AddAssign<isize> for Address
add_Address ==
    /\ arith.kind = "none"
    /\ arith.lhs \in Addresses
    /\ arith' = [arith EXCEPT !.kind = "Address", !.r = Address_add_assign(arith.lhs, arith.rhs)]
    /\ UNCHANGED <<parsevars, mode, runvars>>

SpecArith == ArithInit /\ [][add_Byte \/ add_Address]_vars


(***************************************************************************)
(* What the claims about parse speak of, read off the source text alone.   *)
(***************************************************************************)
Finished == mode \in {"parsed", "failed"}

\* the '[' of src[i..] left without a matching ']', d being open before i
RECURSIVE ULeft(_, _, _)
ULeft(src, i, d) ==
    IF i > Len(src) THEN d
    ELSE ULeft(src, i + 1,
               IF src[i] = "[" THEN d + 1
               ELSE IF src[i] = "]" /\ d > 0 THEN d - 1
               ELSE d)
UnmatchedLeft(src) == ULeft(src, 1, 0)

\* the character index of the first ']' with no unmatched '[' before it,
\* or -1
RECURSIVE FUR(_, _, _)
FUR(src, i, d) ==
    IF i > Len(src) THEN -1
    ELSE IF src[i] = "]" /\ d = 0 THEN i - 1
    ELSE FUR(src, i + 1,
             IF src[i] = "[" THEN d + 1
             ELSE IF src[i] = "]" THEN d - 1
             ELSE d)
FirstUnmatchedRight(src) == FUR(src, 1, 0)

Balanced(src) == UnmatchedLeft(src) = 0 /\ FirstUnmatchedRight(src) = -1

\* no two neighbours of body merge, nor of any loop body inside it
RECURSIVE FoldFixed(_)
FoldFixed(body) ==
    /\ \A i \in 1..(Len(body) - 1) : merge(body[i], body[i + 1]) = None
    /\ \A i \in 1..Len(body) : body[i].k = "Loop" => FoldFixed(body[i].body)

Count(src, ch) == Cardinality({i \in 1..Len(src) : src[i] = ch})
OnlyPlusMinus(src) == \A i \in 1..Len(src) : src[i] \in {"+", "-"}

(***************************************************************************)
(* C1: every source with balanced brackets parses, and in the tree parse   *)
(* returns, and in every sequence the Builder holds on the way, no two     *)
(* neighbouring instructions merge.                                        *)
(***************************************************************************)
C1_FoldFixedPoint ==
    /\ FoldFixed(root)
    /\ \A i \in 1..Len(loops) : FoldFixed(loops[i])
    /\ (Finished /\ Balanced(source)) => (result.tag = "Ok" /\ FoldFixed(result.ast))

\* "+><+." : two merges in a row (Go(0) gives way, Add(1)+Add(1)), then
\* Write stays beside Add(2)
C1_Witness ==
    /\ result.tag = "Ok"
    /\ source = <<"+", ">", "<", "+", ".">>
    /\ result.ast = <<Add(2), Write>>

(***************************************************************************)
(* C4 as claimed: a source with k >= 1 unmatched '[' fails with            *)
(* UnbalancedLeftBrackets of depth k.                                       *)
(***************************************************************************)
C4_Original ==
    (Finished /\ UnmatchedLeft(source) >= 1)
        => result = UnbalancedLeftBrackets(UnmatchedLeft(source))

(***************************************************************************)
(* C4 amended: a source with k >= 1 unmatched '[' and no unmatched ']'     *)
(* fails with UnbalancedLeftBrackets of depth k; with an unmatched ']' it   *)
(* fails with UnbalancedRightBracket instead.                               *)
(***************************************************************************)
C4_UnbalancedLeft ==
    (Finished /\ UnmatchedLeft(source) >= 1)
        => IF FirstUnmatchedRight(source) = -1
           THEN result = UnbalancedLeftBrackets(UnmatchedLeft(source))
           ELSE result.tag = "UnbalancedRightBracket"

\* "[[x]["
C4_Witness ==
    /\ Finished
    /\ source = <<"[", "[", "x", "]", "[">>
    /\ result = UnbalancedLeftBrackets(2)

(***************************************************************************)
(* C5: a source with a ']' that no unmatched '[' precedes fails with       *)
(* UnbalancedRightBracket at the character index of the first such ']',    *)
(* every character counted; nothing after it is read and no tree comes     *)
(* back.                                                                    *)
(***************************************************************************)
C5_UnbalancedRight ==
    (Finished /\ FirstUnmatchedRight(source) >= 0)
        => /\ result = UnbalancedRightBracket(FirstUnmatchedRight(source))
           /\ index = FirstUnmatchedRight(source)

\* "x+]+]": the first of two, after an ignored character
C5_Witness ==
    /\ Finished
    /\ source = <<"x", "+", "]", "+", "]">>
    /\ result = UnbalancedRightBracket(2)

(***************************************************************************)
(* C6: at every ']' with a loop open, what reaches the enclosing sequence  *)
(* is Set(0) when the closed body is exactly Add(-1) or exactly Add(1),    *)
(* and Loop(body) for every other body; "[-]" and "[+]" parse to the one   *)
(* instruction Set(0).                                                      *)
(***************************************************************************)
C6_Closes == mode = "parse" /\ mode' = "parse" /\ source' = Append(source, "]")

C6_Canonical ==
    LET body == loops[Len(loops)]
        outer == IF Len(loops) > 1 THEN loops[Len(loops) - 1] ELSE root
        outerAfter == IF loops' # <<>> THEN loops'[Len(loops')] ELSE root'
        emitted == IF body \in {<<Add(-1)>>, <<Add(1)>>} THEN Set(0) ELSE Loop(body)
    IN  /\ Len(loops') = Len(loops) - 1
        /\ outerAfter = emit(outer, emitted)

C6_IntoLoop ==
    /\ [][C6_Closes => C6_Canonical]_vars
    /\ [](
         (result.tag = "Ok" /\ source \in {<<"[", "-", "]">>, <<"[", "+", "]">>})
             => result.ast = <<Set(0)>>)

\* ".[+]" has parsed to Write, Set(0)
C6_Witness ==
    /\ result.tag = "Ok"
    /\ source = <<".", "[", "+", "]">>
    /\ result.ast = <<Write, Set(0)>>

(***************************************************************************)
(* C7 as claimed: n '+' and m '-' parse to Add(n - m) when n # m and to    *)
(* the empty sequence when n = m.                                           *)
(***************************************************************************)
C7_Original ==
    (result.tag = "Ok" /\ OnlyPlusMinus(source))
        => IF Count(source, "+") # Count(source, "-")
           THEN result.ast = <<Add(Count(source, "+") - Count(source, "-"))>>
           ELSE result.ast = <<>>

(***************************************************************************)
(* C7 amended: one or more '+' and '-' parse to the single instruction     *)
(* Add(n - m), also when n = m: the Add(0) stays as the last instruction   *)
(* and is dropped only once another instruction follows it.  A following   *)
(* '.' is a Write of its own after an Add that is not 0, and the whole     *)
(* sequence after Add(0).                                                   *)
(***************************************************************************)
C7_PlusMinus ==
    LET n == Count(source, "+")
        m == Count(source, "-")
    IN  /\ (result.tag = "Ok" /\ OnlyPlusMinus(source))
            => result.ast = IF Len(source) = 0 THEN <<>> ELSE <<Add(n - m)>>
        /\ (/\ result.tag = "Ok"
            /\ Len(source) >= 2
            /\ source[Len(source)] = "."
            /\ OnlyPlusMinus(SubSeq(source, 1, Len(source) - 1)))
            => result.ast = IF n = m THEN <<Write>> ELSE <<Add(n - m), Write>>

\* "++--" has parsed to Add(0)
C7_Witness ==
    /\ result.tag = "Ok"
    /\ source = <<"+", "+", "-", "-">>
    /\ result.ast = <<Add(0)>>


(***************************************************************************)
(* What the claims about the runs speak of.                                *)
(***************************************************************************)
\* the run is at a Loop with an empty body on a cell that is not 0: the
\* while tests the same cell for ever
Spinning ==
    /\ status = "running"
    /\ AtOp
    /\ Op.k = "Loop"
    /\ Op.body = <<>>
    /\ p < MEMSIZE
    /\ Cell(mem, p) # 0

\* an evaluation step of the interpreter
EvalStep == mode \in {"interp", "unfolded"} /\ mode' = mode /\ steps' = steps + 1

(***************************************************************************)
(* C2 as claimed: the tree parse builds runs as the unfolded tree of the   *)
(* same source does on the same input: where the folded run has ended Ok,  *)
(* the unfolded run does not spin or panic, and ends with the same output, *)
(* tape and cursor.                                                         *)
(***************************************************************************)
C2_Original ==
    mode = "unfolded"
        => /\ ~Spinning
           /\ status # "Panic"
           /\ status = "Ok" => Outcome("Ok") = res["interp"]

(***************************************************************************)
(* C3 as claimed: the interpreter and the program into_c generates write   *)
(* the same bytes on the same input.                                        *)
(***************************************************************************)
C3_Original ==
    mode = "c"
        => /\ status # "Undefined"
           /\ status = "Ok" => out = res["interp"].out

(***************************************************************************)
(* C8: both additions give the residue of the mathematical sum: for a cell *)
(* a and a signed b the result r is in 0..255 with a + b - r a multiple of *)
(* 256, and for an address the same with 65536; 255 + 1 = 0, 0 - 1 = 255,  *)
(* 65535 + 1 = 0.                                                           *)
(***************************************************************************)
Residue(a, b, r, m) ==
    /\ r \in 0..(m - 1)
    /\ \E q \in -4..4 : a + b = q * m + r

C8_WrapAdd ==
    /\ arith.kind = "Byte" => Residue(arith.lhs, arith.rhs, arith.r, 256)
    /\ arith.kind = "Address" => Residue(arith.lhs, arith.rhs, arith.r, 65536)
    /\ (arith.kind = "Byte" /\ arith.lhs = 255 /\ arith.rhs = 1) => arith.r = 0
    /\ (arith.kind = "Byte" /\ arith.lhs = 0 /\ arith.rhs = -1) => arith.r = 255
    /\ (arith.kind = "Address" /\ arith.lhs = 65535 /\ arith.rhs = 1) => arith.r = 0

\* the cursor at address 0 moved by -1 has wrapped to the last address
C8_Witness ==
    arith = [kind |-> "Address", lhs |-> 0, rhs |-> -1, r |-> 65535]

(***************************************************************************)
(* C9 as claimed: a Read at the end of the input stream ends the run with  *)
(* the Io error, the cell at the cursor as it was and nothing more run.    *)
(***************************************************************************)
C9_Original ==
    [][(EvalStep /\ io' = "read_eof")
           => (status' = "Io" /\ stack' = <<>> /\ Cell(mem', p) = Cell(mem, p))]_vars

(***************************************************************************)
(* C10: when a read or a write fails, at any depth of loops, the run ends  *)
(* with the Io error in that step: every enclosing body is left, interpret *)
(* returns the error, the failed call has written and consumed nothing,    *)
(* and from then on output, input position, tape and cursor stay.          *)
(***************************************************************************)
C10_Fails == EvalStep /\ io' \in {"read_err", "write_err"}

C10_IoErrorStops ==
    /\ [][C10_Fails
             => /\ status' = "Io"
                /\ stack' = <<>>
                /\ res'[mode] = [status |-> "Io", out |-> out, mem |-> mem, p |-> p]
                /\ out' = out
                /\ rpos' = rpos]_vars
    /\ [][status = "Io" => UNCHANGED <<status, stack, out, rpos, mem, p, stdin>>]_vars

\* "+[.]": the Write inside the loop went through once and failed in the
\* second pass
C10_Witness ==
    /\ source = <<"+", "[", ".", "]">>
    /\ mode = "interp"
    /\ status = "Io"
    /\ io = "write_err"
    /\ out = <<1>>
    /\ stack = <<>>


\* a tree with no Read and no Write, at any depth; with no Loop at all
RECURSIVE NoReadWrite(_)
NoReadWrite(body) ==
    \A i \in 1..Len(body) :
        /\ body[i].k \notin {"Read", "Write"}
        /\ body[i].k = "Loop" => NoReadWrite(body[i].body)
NoLoop(body) == \A i \in 1..Len(body) : body[i].k # "Loop"

(***************************************************************************)
(* C11 as claimed: a Program with no Read and no Write at any depth        *)
(* terminates: its run never comes to a Loop with an empty body on a cell  *)
(* that is not 0, where the while tests the same cell for ever.            *)
(***************************************************************************)
C11_Original ==
    (mode = "interp" /\ NoReadWrite(result.ast))
        => (~Spinning /\ out = <<>> /\ rpos = 0)

(***************************************************************************)
(* C11 amended: the run of a Program with no Read and no Write writes no   *)
(* byte and consumes none, in every state; when the Program has no Loop    *)
(* either, the run takes at most one step per instruction and then ends,   *)
(* Ok or with the index panic.  With a Loop it may run for ever ("+[]").   *)
(***************************************************************************)
C11_NoIoNoEffect ==
    (mode = "interp" /\ NoReadWrite(result.ast))
        => /\ out = <<>>
           /\ rpos = 0
           /\ stdin = <<>>
           /\ io = "none"
           /\ NoLoop(result.ast)
                  => /\ steps <= Len(result.ast)
                     /\ status \in {"running", "Ok", "Panic"}
                     /\ status = "running" => ENABLED interpret_parsed

\* "+[>]-" has run its loop once and ended, nothing written or read
C11_Witness ==
    /\ mode = "interp"
    /\ source = <<"+", "[", ">", "]", "-">>
    /\ status = "Ok"
    /\ p = 1
    /\ out = <<>>
    /\ rpos = 0

(***************************************************************************)
(* C12 as claimed: the cursor is always a valid index of the tape, so no   *)
(* access by Add, Set, a Loop test, Read or Write is out of bounds.        *)
(***************************************************************************)
C12_Original ==
    mode = "interp" => (status # "Panic" /\ (AtOp /\ Op.k # "Go" => p < MEMSIZE))

(***************************************************************************)
(* C13: a Loop tests the cell at the cursor before each pass and only      *)
(* then: on 0 the Loop is over, with no pass when that is the first test   *)
(* and the cell at the cursor 0 when it is over; otherwise the body is     *)
(* entered at its first instruction.  Inside a body every step that leaves *)
(* the run running goes on to the next instruction, whatever the cell      *)
(* holds, and the end of the body goes back to the test.                   *)
(***************************************************************************)
C13_Test ==
    (EvalStep /\ AtOp /\ Op.k = "Loop" /\ status' = "running")
        => /\ mem' = mem /\ p' = p /\ out' = out
           /\ IF Cell(mem, p) = 0
              THEN stack' = Advance(stack) /\ Cell(mem', p') = 0
              ELSE stack' = Append(stack, Frame(Op.body))

C13_Body ==
    (EvalStep /\ Len(stack) > 1 /\ status' = "running")
        => IF AtOp
           THEN Op.k # "Loop" => stack' = Advance(stack)
           ELSE /\ stack' = SubSeq(stack, 1, Len(stack) - 1)
                /\ stack'[Len(stack')].body[stack'[Len(stack')].i] = Loop(Top.body)
                /\ mem' = mem /\ p' = p

C13_LoopTest == [][C13_Test /\ C13_Body]_vars

\* "+[-.]": the cell went to 0 at the first instruction of the body and
\* the Write after it still ran
C13_Witness ==
    /\ mode = "interp"
    /\ source = <<"+", "[", "-", ".", "]">>
    /\ status = "running"
    /\ Len(stack) = 2
    /\ out = <<0>>

(***************************************************************************)
(* C14: a step of Add, Set or Read changes at most the cell at the cursor, *)
(* a step of Go changes only the cursor, and a Write that goes through     *)
(* appends the one byte the cell at the cursor holds and changes neither   *)
(* tape nor cursor; "++." on a fresh tape writes exactly the byte 2.       *)
(***************************************************************************)
OtherCellsKept ==
    \A a \in ((DOMAIN mem) \cup (DOMAIN mem')) \ {p} : Cell(mem', a) = Cell(mem, a)

C14_Step ==
    (EvalStep /\ AtOp)
        => /\ Op.k \in {"Add", "Set", "Read"} => (p' = p /\ OtherCellsKept /\ out' = out)
           /\ (Op.k = "Add" /\ status' = "running")
                  => \E q \in -2..2 : Cell(mem', p) = Cell(mem, p) + Op.n + 256 * q
           /\ (Op.k = "Set" /\ status' = "running") => Cell(mem', p) = Op.n
           /\ Op.k = "Go" => (mem' = mem /\ out' = out)
           /\ Op.k = "Write"
                  => /\ mem' = mem
                     /\ p' = p
                     /\ IF io' = "write_ok" /\ status' = "running"
                        THEN out' = Append(out, Cell(mem, p))
                        ELSE out' = out

C14_Frame ==
    /\ [][C14_Step]_vars
    /\ []((mode = "interp" /\ status = "Ok" /\ source = <<"+", "+", ".">>)
              => out = <<2>>)

\* "++." has ended with the one byte 2 written
C14_Witness ==
    /\ mode = "interp"
    /\ status = "Ok"
    /\ source = <<"+", "+", ".">>
    /\ out = <<2>>
    /\ mem = (0 :> 2)
    /\ p = 0


\* measures of a tree: its instructions, its Loops, its deepest nesting
SetMax(S) == IF S = {} THEN 0 ELSE CHOOSE x \in S : \A y \in S : y <= x
RECURSIVE NodeCount(_)
NodeCount(body) ==
    IF body = <<>> THEN 0
    ELSE 1 + NodeCount(Head(body).body) + NodeCount(Tail(body))
RECURSIVE LoopCount(_)
LoopCount(body) ==
    IF body = <<>> THEN 0
    ELSE (IF Head(body).k = "Loop" THEN 1 ELSE 0)
         + LoopCount(Head(body).body) + LoopCount(Tail(body))
RECURSIVE TreeDepth(_)
TreeDepth(body) ==
    SetMax({IF body[i].k = "Loop" THEN 1 + TreeDepth(body[i].body) ELSE 0 : i \in 1..Len(body)})

\* the lines of main's body in a text, and how deep in whiles line j is
IsWhile(l) == l.stmt = "while (mem[p]) {"
IsClose(l) == l.stmt = "}"
BodyLines(t) == (MainLine(t) + 1)..(Len(t) - 1)
Level(t, j) ==
    1 + Cardinality({x \in BodyLines(t) : x < j /\ IsWhile(t[x])})
      - Cardinality({x \in BodyLines(t) : x <= j /\ IsClose(t[x])})
\* the brace that closes the while at line i
Closing(t, i) ==
    CHOOSE j \in (i + 1)..Len(t) :
        /\ IsClose(t[j])
        /\ t[j].tabs = t[i].tabs
        /\ \A x \in (i + 1)..(j - 1) : t[x].tabs > t[i].tabs
\* the instruction a statement line stands for
StatementOp(l) ==
    IF l.stmt = "mem[p] += n;" THEN Add(l.n)
    ELSE IF l.stmt = "mem[p] -= n;" THEN Add(-l.n)
    ELSE IF l.stmt = "p += n;" THEN Go(l.n)
    ELSE IF l.stmt = "p -= n;" THEN Go(-l.n)
    ELSE IF l.stmt = "mem[p] = n;" THEN Set(l.n)
    ELSE IF l.stmt = "mem[p] = getchar();" THEN Read
    ELSE Write
\* the tree the lines i..j of a text stand for
RECURSIVE Decode(_, _, _)
Decode(t, i, j) ==
    IF i > j THEN <<>>
    ELSE IF IsWhile(t[i])
    THEN <<Loop(Decode(t, i + 1, Closing(t, i) - 1))>> \o Decode(t, Closing(t, i) + 1, j)
    ELSE <<StatementOp(t[i])>> \o Decode(t, i + 1, j)

(***************************************************************************)
(* C15: the text into_c returns has, in main's body, one statement line    *)
(* per instruction of the tree and one "}" line per Loop; every line is    *)
(* indented by one plus the number of whiles open at it, so a Loop's body  *)
(* is one level deeper than its while and its "}" back at the while's      *)
(* level; the deepest while is as deep as the deepest Loop; and reading    *)
(* the lines back gives the tree.                                          *)
(***************************************************************************)
C15_Structure ==
    mode = "compiled"
        => /\ ctext[Len(ctext)] = Line(0, "}", 0)
           /\ \A j \in BodyLines(ctext) :
                  /\ ctext[j].tabs = Level(ctext, j)
                  /\ Level(ctext, j) >= 1
           /\ Cardinality({j \in BodyLines(ctext) : IsWhile(ctext[j])})
                  = Cardinality({j \in BodyLines(ctext) : IsClose(ctext[j])})
           /\ Cardinality({j \in BodyLines(ctext) : ~IsClose(ctext[j])}) = NodeCount(result.ast)
           /\ Cardinality({j \in BodyLines(ctext) : IsWhile(ctext[j])}) = LoopCount(result.ast)
           /\ SetMax({ctext[j].tabs : j \in {x \in BodyLines(ctext) : IsWhile(ctext[x])}})
                  = TreeDepth(result.ast)
           /\ Decode(ctext, MainLine(ctext) + 1, Len(ctext) - 1) = result.ast

\* "[[.]]": a while inside a while, the putchar two levels deeper than main
C15_Witness ==
    /\ mode = "compiled"
    /\ source = <<"[", "[", ".", "]", "]">>
    /\ Len(ctext) = 12
    /\ ctext[7] = Line(1, "while (mem[p]) {", 0)
    /\ ctext[8] = Line(2, "while (mem[p]) {", 0)
    /\ ctext[9] = Line(3, "putchar(mem[p]);", 0)
    /\ ctext[10] = Line(2, "}", 0)
    /\ ctext[11] = Line(1, "}", 0)

\* the deepest bracket nesting of a source
RECURSIVE Nesting(_, _, _, _)
Nesting(src, i, d, m) ==
    IF i > Len(src) THEN m
    ELSE IF src[i] = "[" THEN Nesting(src, i + 1, d + 1, IF d + 1 > m THEN d + 1 ELSE m)
    ELSE IF src[i] = "]" THEN Nesting(src, i + 1, d - 1, m)
    ELSE Nesting(src, i + 1, d, m)
MaxNesting(src) == Nesting(src, 1, 0, 0)

(***************************************************************************)
(* C16 as claimed: for a balanced source, the tree parse returns is as     *)
(* deep in Loops as the source is in brackets.                             *)
(***************************************************************************)
C16_Original ==
    (mode = "parsed" /\ Balanced(source))
        => TreeDepth(result.ast) = MaxNesting(source)

(***************************************************************************)
(* C16 amended: for a balanced source, the tree parse returns is at most   *)
(* as deep in Loops as the source is in brackets; the tree of the same     *)
(* source with nothing folded is exactly as deep.                          *)
(***************************************************************************)
C16_DepthBound ==
    mode = "parsed"
        => /\ Balanced(source)
           /\ TreeDepth(result.ast) <= MaxNesting(source)
           /\ TreeDepth(unfolded(source, 1, <<>>, <<>>)) = MaxNesting(source)

\* "[[-]]": two levels of brackets, one Loop around Set(0)
C16_Witness ==
    /\ mode = "parsed"
    /\ source = <<"[", "[", "-", "]", "]">>
    /\ result = Ok(<<Loop(<<Set(0)>>)>>)
    /\ MaxNesting(source) = 2
    /\ TreeDepth(result.ast) = 1

\* a source with every character parse ignores taken out
Strip(src) == SelectSeq(src, LAMBDA ch : ch \in Symbols)

(***************************************************************************)
(* C17: parse returns for a source what it returns for the source with     *)
(* every character other than the eight symbols taken out: the same tree,  *)
(* the same UnbalancedLeftBrackets depth, the same kind of result in any   *)
(* case; so "+x+" folds to Add(2) as "++" does.                            *)
(***************************************************************************)
C17_OthersIgnored ==
    Finished
        => /\ result = parse_source(source)
           /\ parse_source(Strip(source)).tag = result.tag
           /\ result.tag \in {"Ok", "UnbalancedLeftBrackets"}
                  => parse_source(Strip(source)) = result
           /\ (result.tag = "Ok" /\ Strip(source) = <<"+", "+">>) => result.ast = <<Add(2)>>

\* "+x+" has parsed to the one Add(2)
C17_Witness ==
    /\ mode = "parsed"
    /\ source = <<"+", "x", "+">>
    /\ Strip(source) = <<"+", "+">>
    /\ result = Ok(<<Add(2)>>)

=============================================================================
